---- MODULE Spec2Model ----
(***************************************************************************)
(* Model of src/sys/memory_posix.c: the page operations (reserve_pages,    *)
(* release_pages) and the shared-memory registry (create_shared_memory,    *)
(* map_shared_memory, unmap_shared_memory, destroy_shared_memory) together *)
(* with the part of the operating system they act on: the shared-memory    *)
(* namespace, the descriptor table and the address space.                  *)
(*                                                                         *)
(* Operating-system calls fail for the reasons the modelled OS state       *)
(* gives: shm_unlink with ENOENT, shm_open with EEXIST or EMFILE,          *)
(* ftruncate on a descriptor that is not open for writing, mmap and munmap *)
(* with EINVAL on an empty range, mmap with ENOMEM, EBADF or EACCES.       *)
(* close may in addition fail for a reason outside the model (EINTR, EIO). *)
(* Callers respect the handle contract: map and destroy are called on live *)
(* handles only.                                                           *)
(***************************************************************************)
EXTENDS Integers, Sequences, FiniteSets, TLC

\* capacity of the pool; the source sets 128 (memory_posix.c:11), the model
\* checks a small pool
MAX_SHMEM == 2
\* pages of the modelled window of the address space
NumPages == 2
\* longest call history kept by the page-operation specification
MaxHist == 3

\* the descriptor table has room for the descriptors of a full pool
MaxFds == MAX_SHMEM

Entries == 0 .. (MAX_SHMEM - 1)
Names == {"x", "y"}
Fds == 3 .. (2 + MaxFds)
Pages == 0 .. (NumPages - 1)
Sizes == 0 .. NumPages

NULL == -1
MAP_FAILED == -1

Access == {"ACC_NONE", "ACC_READONLY", "ACC_READWRITE", "ACC_READWRITEEXEC"}

\* the values of a byte: zero and a pattern
Bytes == {0, 1}

\* the threads that call the registry; NoThread holds a free mutex
Threads == {1, 2}
NoThread == 0

VARIABLES
  s_initialized,   \* static bool s_initialized
  s_shmem,         \* static shmem_t s_shmem[MAX_SHMEM]: filename, handle
  s_free_shmem,    \* static list_t s_free_shmem: entries, head first
  shm_ns,          \* OS: the linked names, each with the object it names
  fd_table,        \* OS: the open descriptors, each with [obj, oflag]
  vm,              \* OS: page -> mapping installed there
  mem,             \* OS: object -> its contents, one byte for each page
  live,            \* entry -> the handles to it that create has returned
                   \* and destroy has not yet been given
  aborted,         \* CHECK_NOTNULL failed: the process has terminated
  last,            \* the last call and its results
  hist,            \* page-operation calls so far (page specification only)
  maps,            \* caller: page -> <<handle, offset>> of the live handle
                   \* it has mapped there (data specification only)
  pc,              \* thread -> where it is in its registry call
  loc,             \* thread -> the arguments and locals of that call
  mutex            \* the caller-provided mutex: the thread holding it

pool_vars == <<s_initialized, s_shmem, s_free_shmem, live, aborted>>
os_vars == <<shm_ns, fd_table, vm, mem>>
thread_vars == <<pc, loc, mutex>>
vars == <<s_initialized, s_shmem, s_free_shmem, shm_ns, fd_table, vm, mem,
          live, aborted, last, hist, maps, pc, loc, mutex>>

(***************************************************************************)
(* access conversions                                                      *)
(***************************************************************************)
access_to_open_flags(access) ==
  CASE access = "ACC_READONLY" -> "O_RDONLY"
    [] access = "ACC_READWRITE" -> "O_RDWR"
    [] OTHER -> "O_RDONLY"     \* default: return 0, the value of O_RDONLY

access_to_protect_flags(access) ==
  CASE access = "ACC_READONLY" -> {"PROT_READ"}
    [] access = "ACC_READWRITE" -> {"PROT_READ", "PROT_WRITE"}
    [] access = "ACC_READWRITEEXEC" -> {"PROT_READ", "PROT_WRITE", "PROT_EXEC"}
    [] OTHER -> {}             \* PROT_NONE

(***************************************************************************)
(* core/list.h                                                             *)
(***************************************************************************)
list_add(list, n) == Append(list, n)

list_first_entry(list) == IF list = <<>> THEN NULL ELSE Head(list)

list_remove(list, n) == SelectSeq(list, LAMBDA x : x # n)

(***************************************************************************)
(* the operating system                                                    *)
(*                                                                         *)
(* A shared-memory object exists while a name, a descriptor or a mapping   *)
(* refers to it. No descriptor is duplicated, so an object that is open is *)
(* identified by its descriptor, <<"fd", f>>; an object that only mappings *)
(* keep alive is identified by the first of the pages that map it,         *)
(* <<"page", p>>.                                                          *)
(***************************************************************************)
NoMap == [kind |-> "none"]
AnonMap == [kind |-> "anon"]
ShmMap(o, off) == [kind |-> "shm", obj |-> o, off |-> off]

Range(ptr, size) == ptr .. (ptr + size - 1)

RangeFree(v, ptr, size) ==
  /\ ptr + size <= NumPages
  /\ \A p \in Range(ptr, size) : v[p].kind = "none"

Linked(ns) == {ns[n] : n \in DOMAIN ns}
Open(fdt) == {fdt[f].obj : f \in DOMAIN fdt}
Mapped(v) == {v[p].obj : p \in {q \in Pages : v[q].kind = "shm"}}

Min(S) == CHOOSE x \in S : \A y \in S : x <= y

Drop(f, x) == [y \in DOMAIN f \ {x} |-> f[y]]

Nothing == [x \in {} |-> x]

\* the pages that map the object mapped at page p
PagesOf(v, p) == {q \in Pages : v[q].kind = "shm" /\ v[q].obj = v[p].obj}

\* names the objects that only mappings keep alive by their first page
Canon(v) ==
  [p \in Pages |->
     IF v[p].kind = "shm" /\ v[p].obj[1] = "page"
       THEN [v[p] EXCEPT !.obj = <<"page", Min(PagesOf(v, p))>>]
       ELSE v[p]]

\* the address space once descriptor fd is closed: the object it held open
\* lives on in its mappings
Detach(v, fd) ==
  Canon([p \in Pages |->
           IF v[p].kind = "shm" /\ v[p].obj = <<"fd", fd>>
             THEN [v[p] EXCEPT !.obj = <<"page", NumPages>>]
             ELSE v[p]])

\* the contents of the objects after a call that leaves descriptors fdt2
\* open and mappings v2 installed, v and m being the mappings and contents
\* before it: an object keeps its contents under the name it then has, a
\* new one is empty, and one that nothing refers to any more is gone
Carry(m, v, fdt2, v2) ==
  [n \in Open(fdt2) \cup Mapped(v2) |->
     IF n[1] = "page" THEN m[v[n[2]].obj]
     ELSE IF n \in DOMAIN m THEN m[n]
     ELSE Nothing]

\* the contents once object obj has `size` pages: the bytes it had up to
\* there, and zeros after them
Resized(m, obj, size) ==
  [m EXCEPT ![obj] = [i \in 0 .. (size - 1) |->
                        IF i \in DOMAIN m[obj] THEN m[obj][i] ELSE 0]]

\* shm_unlink: removes the name; ENOENT when nothing is linked under it
shm_unlink(ns, name) ==
  IF name \in DOMAIN ns
    THEN [ret |-> 0, ns |-> Drop(ns, name)]
    ELSE [ret |-> -1, ns |-> ns]

\* shm_open(name, oflag | O_CREAT | O_EXCL, mode): EEXIST when the name is
\* linked, EMFILE when the descriptor table is full; otherwise a new object
\* is linked under the name and opened on the lowest free descriptor
shm_open(ns, fdt, name, oflag) ==
  LET free == Fds \ DOMAIN fdt
      fd == Min(free)
      obj == <<"fd", fd>>
  IN IF name \in DOMAIN ns \/ free = {}
       THEN [fd |-> -1, ns |-> ns, fdt |-> fdt]
       ELSE [fd |-> fd,
             ns |-> (name :> obj) @@ ns,
             fdt |-> (fd :> [obj |-> obj, oflag |-> oflag]) @@ fdt]

\* ftruncate: EBADF/EINVAL unless the descriptor is open for writing
ftruncate(fdt, fd, size) ==
  IF fd \in DOMAIN fdt /\ fdt[fd].oflag = "O_RDWR" THEN 0 ELSE -1

\* close: EBADF on a closed descriptor; `io` is the outcome of the close of
\* an open one, which releases the descriptor also when it reports an error
\* (EINTR, EIO)
close(fdt, v, fd, io) ==
  IF fd \in DOMAIN fdt
    THEN [ret |-> IF io = "ok" THEN 0 ELSE -1,
          fdt |-> Drop(fdt, fd), vm |-> Detach(v, fd)]
    ELSE [ret |-> -1, fdt |-> fdt, vm |-> v]

\* munmap: EINVAL on an empty range; unmapped pages in the range are no error
munmap(v, ptr, size) ==
  IF size = 0
    THEN [ret |-> -1, vm |-> v]
    ELSE [ret |-> 0,
          vm |-> Canon([p \in Pages |-> IF p \in Range(ptr, size)
                                          THEN NoMap ELSE v[p]])]

\* mmap(ptr, size, PROT_NONE, MAP_ANON | MAP_NORESERVE | MAP_PRIVATE, -1, 0):
\* the outcomes of a mapping without MAP_FIXED. EINVAL on an empty range.
\* The hint is obeyed when the range is free; otherwise the mapping is
\* placed on any other free range, and fails with ENOMEM when there is none.
mmap_anon(v, ptr, size) ==
  LET place(b) == [res |-> b,
                   vm |-> [p \in Pages |-> IF p \in Range(b, size)
                                             THEN AnonMap ELSE v[p]]]
      others == {b \in Pages : RangeFree(v, b, size)}
  IN IF size = 0 THEN {[res |-> MAP_FAILED, vm |-> v]}
     ELSE IF RangeFree(v, ptr, size) THEN {place(ptr)}
     ELSE IF others = {} THEN {[res |-> MAP_FAILED, vm |-> v]}
     ELSE {place(b) : b \in others}

\* mutant: the mapping is made without MAP_FIXED and given up when the OS
\* places it elsewhere
mmap_shared_not_fixed(v, fdt, start, size, prot, fd, offset) ==
  IF \/ size = 0
     \/ fd \notin DOMAIN fdt
     \/ ("PROT_WRITE" \in prot /\ fdt[fd].oflag # "O_RDWR")
     \/ ~RangeFree(v, start, size)
    THEN [res |-> MAP_FAILED, vm |-> v]
    ELSE [res |-> start,
          vm |-> Canon([p \in Pages |->
                          IF p \in Range(start, size)
                            THEN ShmMap(fdt[fd].obj, offset + (p - start))
                            ELSE v[p]])]

\* a page of a private mapping: it holds its own copy of the byte
CopyMap(b) == [kind |-> "copy", byte |-> b]

\* mutant: the mapping is made with MAP_PRIVATE, each page a copy of the
\* byte the object holds when it is mapped
mmap_private_fixed(v, fdt, start, size, prot, fd, offset) ==
  IF \/ size = 0
     \/ fd \notin DOMAIN fdt
     \/ ("PROT_WRITE" \in prot /\ fdt[fd].oflag # "O_RDWR")
    THEN [res |-> MAP_FAILED, vm |-> v]
    ELSE [res |-> start,
          vm |-> Canon([p \in Pages |->
                          IF p \in Range(start, size)
                            THEN LET c == mem[fdt[fd].obj]
                                     i == offset + (p - start)
                                 IN CopyMap(IF i \in DOMAIN c
                                              THEN c[i] ELSE 0)
                            ELSE v[p]])]

\* mmap(start, size, prot, MAP_SHARED | MAP_FIXED, fd, offset): EINVAL on
\* an empty range, EBADF on a closed descriptor, EACCES for a writable
\* mapping of a descriptor not open for writing; otherwise it replaces
\* whatever is mapped in the range
mmap_shared_fixed(v, fdt, start, size, prot, fd, offset) ==
  IF \/ size = 0
     \/ fd \notin DOMAIN fdt
     \/ ("PROT_WRITE" \in prot /\ fdt[fd].oflag # "O_RDWR")
    THEN [res |-> MAP_FAILED, vm |-> v]
    ELSE [res |-> start,
          vm |-> Canon([p \in Pages |->
                          IF p \in Range(start, size)
                            THEN ShmMap(fdt[fd].obj, offset + (p - start))
                            ELSE v[p]])]

\* page p can be read and written: it maps a page that its object has, or
\* is a private copy
Accessible(m, v, p) ==
  \/ v[p].kind = "copy"
  \/ v[p].kind = "shm" /\ v[p].off \in DOMAIN m[v[p].obj]

\* the byte read at page p
Load(m, v, p) ==
  IF v[p].kind = "copy" THEN v[p].byte ELSE m[v[p].obj][v[p].off]

(***************************************************************************)
(* the last call                                                           *)
(***************************************************************************)
\* op: the function called; ret: the flag it returned (from create: that
\* the handle is not NULL); handle: the handle create returned, or the one
\* map or destroy was given; start, size: the range map was given; calls:
\* the OS calls it made, in their order; err: the calls that failed in it;
\* occupied: some page of the requested range was mapped (for create: the
\* name was linked) before the call
NoCall ==
  [op |-> "none", ret |-> TRUE, handle |-> NULL, start |-> 0, size |-> 0,
   calls |-> <<>>, err |-> "none", occupied |-> FALSE]

Occupied(v, ptr, size) == \E p \in Range(ptr, size) : v[p].kind # "none"

(***************************************************************************)
(* page operations                                                         *)
(***************************************************************************)
\* mutant: the reservation is made with MAP_FIXED
reserve_pages_fixed(ptr, size) ==
  /\ ~aborted
  /\ LET call == [NoCall EXCEPT !.op = "reserve", !.calls = <<"mmap">>,
                    !.occupied = Occupied(vm, ptr, size)]
     IN
     IF size = 0
       THEN /\ vm' = vm
            /\ last' = [call EXCEPT !.err = "mmap", !.ret = FALSE]
       ELSE /\ vm' = Canon([p \in Pages |-> IF p \in Range(ptr, size)
                                              THEN AnonMap ELSE vm[p]])
            /\ last' = [call EXCEPT !.ret = TRUE]
  /\ mem' = Carry(mem, vm, fd_table, vm')
  /\ UNCHANGED <<pool_vars, shm_ns, fd_table>>

\* mutant: the mapping made at another address is not released
reserve_pages_keeps_stray(ptr, size) ==
  /\ ~aborted
  /\ \E m \in mmap_anon(vm, ptr, size) :
       LET res == m.res
           call == [NoCall EXCEPT !.op = "reserve", !.calls = <<"mmap">>,
                      !.occupied = Occupied(vm, ptr, size)]
       IN
       IF res = MAP_FAILED
         THEN /\ vm' = m.vm
              /\ last' = [call EXCEPT !.err = "mmap", !.ret = FALSE]
       ELSE IF res # ptr
         THEN /\ vm' = m.vm
              /\ last' = [call EXCEPT !.err = "moved", !.ret = FALSE,
                              !.calls = <<"mmap", "munmap">>]
         ELSE /\ vm' = m.vm
              /\ last' = [call EXCEPT !.ret = TRUE]
  /\ mem' = Carry(mem, vm, fd_table, vm')
  /\ UNCHANGED <<pool_vars, shm_ns, fd_table>>

reserve_pages(ptr, size) ==
  /\ ~aborted
  /\ \E m \in mmap_anon(vm, ptr, size) :
       LET res == m.res
           call == [NoCall EXCEPT !.op = "reserve", !.calls = <<"mmap">>,
                      !.occupied = Occupied(vm, ptr, size)]
       IN
       IF res = MAP_FAILED
         THEN /\ vm' = m.vm
              /\ last' = [call EXCEPT !.err = "mmap", !.ret = FALSE]
       ELSE IF res # ptr
         THEN /\ vm' = munmap(m.vm, res, size).vm
              /\ last' = [call EXCEPT !.err = "moved", !.ret = FALSE,
                              !.calls = <<"mmap", "munmap">>]
         ELSE /\ vm' = m.vm
              /\ last' = [call EXCEPT !.ret = TRUE]
  /\ mem' = Carry(mem, vm, fd_table, vm')
  /\ UNCHANGED <<pool_vars, shm_ns, fd_table>>

\* mutant: the range is released one page short
release_pages_short(ptr, size) ==
  /\ ~aborted
  /\ LET u == munmap(vm, ptr, size)
         v == IF size > 1 THEN munmap(vm, ptr, size - 1).vm ELSE vm
     IN
       /\ vm' = v
       /\ last' = [NoCall EXCEPT !.op = "release", !.calls = <<"munmap">>,
                     !.ret = (u.ret = 0)]
  /\ mem' = Carry(mem, vm, fd_table, vm')
  /\ UNCHANGED <<pool_vars, shm_ns, fd_table>>

release_pages(ptr, size) ==
  /\ ~aborted
  /\ LET u == munmap(vm, ptr, size) IN
       /\ vm' = u.vm
       /\ last' = [NoCall EXCEPT !.op = "release", !.calls = <<"munmap">>,
                     !.ret = (u.ret = 0)]
  /\ mem' = Carry(mem, vm, fd_table, vm')
  /\ UNCHANGED <<pool_vars, shm_ns, fd_table>>

\* the caller stores byte b at page p: through a shared mapping the store
\* goes to the object
store(p, b) ==
  /\ ~aborted
  /\ Accessible(mem, vm, p)
  /\ IF vm[p].kind = "copy"
       THEN /\ vm' = [vm EXCEPT ![p].byte = b]
            /\ mem' = mem
       ELSE /\ vm' = vm
            /\ mem' = [mem EXCEPT ![vm[p].obj][vm[p].off] = b]
  /\ last' = [NoCall EXCEPT !.op = "store", !.start = p, !.size = 1]
  /\ UNCHANGED <<pool_vars, shm_ns, fd_table>>

(***************************************************************************)
(* shared-memory registry                                                  *)
(***************************************************************************)
RECURSIVE AddEntries(_, _)
AddEntries(list, i) ==
  IF i < MAX_SHMEM THEN AddEntries(list_add(list, i), i + 1) ELSE list

\* mutant: the loop starts at the second entry
init_skips_first_entry(initialized, list) ==
  IF initialized THEN list ELSE AddEntries(list, 1)

\* the free list after init_shared_memory_entries (s_initialized is then set)
init_shared_memory_entries(initialized, list) ==
  IF initialized THEN list ELSE AddEntries(list, 0)

\* mutant: the name is not unlinked before the exclusive create
unlink_existing_skipped(ns, filename) == ns

\* "make sure the shared memory object doesn't already exist"
unlink_existing(ns, filename) == shm_unlink(ns, filename).ns

\* mutant: the object is left linked when the resize fails
unlink_created_skipped(ns, filename) == ns

\* the resize failed: the object just created is unlinked
unlink_created(ns, filename) == shm_unlink(ns, filename).ns

\* mutant: the object is made one page short
resize_created_short(m, obj, size) ==
  Resized(m, obj, IF size > 0 THEN size - 1 ELSE 0)

\* ftruncate(handle, size) has succeeded: the new object has `size` pages
resize_created(m, obj, size) == Resized(m, obj, size)

\* mutant: the name is not copied into the entry
update_entry_handle_only(entry, filename, handle) ==
  [entry EXCEPT !.handle = handle]

\* strncpy(shmem->filename, filename, ...); shmem->handle = handle
update_entry(entry, filename, handle) ==
  [filename |-> filename, handle |-> handle]

\* mutant: the entry handed out stays on the free list
take_entry_forgotten(list, shmem) == list

\* "update entry, remove from free list"
take_entry(list, shmem) == list_remove(list, shmem)

create_shared_memory(filename, size, access) ==
  /\ ~aborted
  /\ LET free == init_shared_memory_entries(s_initialized, s_free_shmem)
         shmem == list_first_entry(free)
         call == [NoCall EXCEPT !.op = "create",
                    !.occupied = (filename \in DOMAIN shm_ns)]
     IN
     /\ s_initialized' = TRUE
     /\ IF shmem = NULL
          THEN \* CHECK_NOTNULL(shmem)
               /\ aborted' = TRUE
               /\ s_free_shmem' = free
               /\ last' = [call EXCEPT !.err = "abort", !.ret = FALSE]
               /\ UNCHANGED <<s_shmem, live, os_vars>>
          ELSE
            LET ns1 == unlink_existing(shm_ns, filename)
                oflag == access_to_open_flags(access)
                o == shm_open(ns1, fd_table, filename, oflag)
                handle == o.fd
            IN
            IF handle = -1
              THEN /\ shm_ns' = o.ns
                   /\ fd_table' = o.fdt
                   /\ s_free_shmem' = free
                   /\ last' = [call EXCEPT !.err = "shm_open",
                                 !.calls = <<"shm_unlink", "shm_open">>,
                                 !.ret = FALSE]
                   /\ mem' = Carry(mem, vm, o.fdt, vm)
                   /\ UNCHANGED <<s_shmem, live, aborted, vm>>
            ELSE IF ftruncate(o.fdt, handle, size) = -1
              THEN /\ shm_ns' = unlink_created(o.ns, filename)
                   /\ fd_table' = o.fdt
                   /\ s_free_shmem' = free
                   /\ last' = [call EXCEPT !.err = "ftruncate",
                                 !.calls = <<"shm_unlink", "shm_open",
                                             "ftruncate", "shm_unlink">>,
                                 !.ret = FALSE]
                   /\ mem' = Carry(mem, vm, o.fdt, vm)
                   /\ UNCHANGED <<s_shmem, live, aborted, vm>>
              ELSE /\ shm_ns' = o.ns
                   /\ fd_table' = o.fdt
                   /\ s_shmem' = [s_shmem EXCEPT ![shmem] =
                                    update_entry(@, filename, handle)]
                   /\ s_free_shmem' = take_entry(free, shmem)
                   /\ live' = [live EXCEPT ![shmem] = @ + 1]
                   /\ mem' = resize_created(Carry(mem, vm, o.fdt, vm),
                                            o.fdt[handle].obj, size)
                   /\ last' = [call EXCEPT !.handle = shmem,
                                 !.calls = <<"shm_unlink", "shm_open",
                                             "ftruncate">>]
                   /\ UNCHANGED <<aborted, vm>>

map_shared_memory(handle, offset, start, size, access) ==
  /\ ~aborted
  /\ live[handle] > 0
  /\ LET free == init_shared_memory_entries(s_initialized, s_free_shmem)
         shmem == handle
         prot == access_to_protect_flags(access)
         m == mmap_shared_fixed(vm, fd_table, start, size, prot,
                                s_shmem[shmem].handle, offset)
     IN
     /\ s_initialized' = TRUE
     /\ s_free_shmem' = free
     /\ vm' = m.vm
     /\ mem' = Carry(mem, vm, fd_table, m.vm)
     /\ last' = [NoCall EXCEPT !.op = "map", !.handle = handle,
                   !.calls = <<"mmap">>,
                   !.start = start, !.size = size,
                   !.occupied = Occupied(vm, start, size),
                   !.ret = (m.res # MAP_FAILED)]
  /\ UNCHANGED <<s_shmem, live, aborted, shm_ns, fd_table>>

\* mutant: only the mappings of a live handle are released
unmap_of_live_handle(handle, start, size) ==
  /\ ~aborted
  /\ LET known == handle \in Entries /\ live[handle] > 0
         u == IF known THEN munmap(vm, start, size)
                       ELSE [ret |-> -1, vm |-> vm]
     IN
       /\ vm' = u.vm
       /\ last' = [NoCall EXCEPT !.op = "unmap", !.calls = <<"munmap">>,
                     !.ret = (u.ret = 0)]
  /\ mem' = Carry(mem, vm, fd_table, vm')
  /\ UNCHANGED <<pool_vars, shm_ns, fd_table>>

unmap_shared_memory(handle, start, size) ==
  /\ ~aborted
  /\ LET u == munmap(vm, start, size) IN
       /\ vm' = u.vm
       /\ last' = [NoCall EXCEPT !.op = "unmap", !.calls = <<"munmap">>,
                     !.ret = (u.ret = 0)]
  /\ mem' = Carry(mem, vm, fd_table, vm')
  /\ UNCHANGED <<pool_vars, shm_ns, fd_table>>

\* mutant: the name is unlinked only while it names the object of the entry
unlink_recorded_if_own(ns, entry) ==
  IF /\ entry.filename \in DOMAIN ns
     /\ ns[entry.filename] = <<"fd", entry.handle>>
    THEN shm_unlink(ns, entry.filename)
    ELSE [ret |-> -1, ns |-> ns]

\* shm_unlink(shmem->filename)
unlink_recorded(ns, entry) == shm_unlink(ns, entry.filename)

\* mutant: the entry of a destroyed handle is not put back
recycle_entry_dropped(list, shmem) == list

\* "add back to free list"
recycle_entry(list, shmem) == list_add(list, shmem)

\* mutant: returns as soon as the close has failed
destroy_returns_on_failed_close(handle, io) ==
  /\ ~aborted
  /\ live[handle] > 0
  /\ LET free == init_shared_memory_entries(s_initialized, s_free_shmem)
         shmem == handle
         c == close(fd_table, vm, s_shmem[shmem].handle, io)
         u == unlink_recorded(shm_ns, s_shmem[shmem])
         res1 == c.ret
         res2 == u.ret
     IN
     /\ s_initialized' = TRUE
     /\ fd_table' = c.fdt
     /\ vm' = c.vm
     /\ mem' = Carry(mem, vm, c.fdt, c.vm)
     /\ shm_ns' = IF res1 = 0 THEN u.ns ELSE shm_ns
     /\ s_free_shmem' = IF res1 = 0 THEN list_add(free, shmem) ELSE free
     /\ live' = [live EXCEPT ![handle] = @ - 1]
     /\ last' = [NoCall EXCEPT !.op = "destroy", !.handle = handle,
                   !.calls = IF res1 = 0 THEN <<"close", "shm_unlink">>
                                         ELSE <<"close">>,
                   !.err = CASE res1 = 0 /\ res2 = 0 -> "none"
                             [] res1 # 0 -> "close"
                             [] OTHER -> "shm_unlink",
                   !.ret = (res1 = 0 /\ res2 = 0)]
  /\ UNCHANGED <<s_shmem, aborted>>

destroy_shared_memory(handle, io) ==
  /\ ~aborted
  /\ live[handle] > 0
  /\ LET free == init_shared_memory_entries(s_initialized, s_free_shmem)
         shmem == handle
         c == close(fd_table, vm, s_shmem[shmem].handle, io)
         u == unlink_recorded(shm_ns, s_shmem[shmem])
         res1 == c.ret
         res2 == u.ret
     IN
     /\ s_initialized' = TRUE
     /\ fd_table' = c.fdt
     /\ vm' = c.vm
     /\ mem' = Carry(mem, vm, c.fdt, c.vm)
     /\ shm_ns' = u.ns
     /\ s_free_shmem' = recycle_entry(free, shmem)
     /\ live' = [live EXCEPT ![handle] = @ - 1]
     /\ last' = [NoCall EXCEPT !.op = "destroy", !.handle = handle,
                   !.calls = <<"close", "shm_unlink">>,
                   !.err = CASE res1 = 0 /\ res2 = 0 -> "none"
                             [] res1 # 0 /\ res2 = 0 -> "close"
                             [] res1 = 0 /\ res2 # 0 -> "shm_unlink"
                             [] OTHER -> "close, shm_unlink",
                   !.ret = (res1 = 0 /\ res2 = 0)]
  /\ UNCHANGED <<s_shmem, aborted>>

(***************************************************************************)
(* the registry calls of a thread, statement by statement                  *)
(*                                                                         *)
(* Each step is the stretch of a call between two accesses to the static   *)
(* pool; the OS calls of a call read and write nothing of the pool and are *)
(* one step. The steps of different threads interleave. (Without a lock    *)
(* the accesses are data races; the interleavings of the statements are    *)
(* among the outcomes a build can produce.)                                *)
(***************************************************************************)
\* the arguments and locals of a registry call: the function, its filename,
\* access and handle arguments, the loop counter of the initialization and
\* the entry and descriptor the call works on
NoLocals ==
  [op |-> "none", filename |-> "", access |-> "ACC_NONE", handle |-> NULL,
   i |-> 0, shmem |-> NULL, fd |-> -1]

Goto(t, label) == pc' = [pc EXCEPT ![t] = label]

call_create(t, filename, access) ==
  /\ ~aborted
  /\ pc[t] = "idle"
  /\ Goto(t, "init_check")
  /\ loc' = [loc EXCEPT ![t] = [NoLocals EXCEPT !.op = "create",
                                  !.filename = filename,
                                  !.access = access]]
  /\ UNCHANGED <<pool_vars, os_vars, last>>

\* the caller gives up the handle when it calls destroy
call_destroy(t, handle) ==
  /\ ~aborted
  /\ pc[t] = "idle"
  /\ live[handle] > 0
  /\ Goto(t, "init_check")
  /\ loc' = [loc EXCEPT ![t] = [NoLocals EXCEPT !.op = "destroy",
                                  !.handle = handle]]
  /\ live' = [live EXCEPT ![handle] = @ - 1]
  /\ UNCHANGED <<s_initialized, s_shmem, s_free_shmem, aborted, os_vars,
                 last>>

\* mutant: the initialization does not return when it has been done
init_check_always(t) ==
  /\ ~aborted
  /\ pc[t] = "init_check"
  /\ Goto(t, "init_set")
  /\ UNCHANGED <<pool_vars, os_vars, last, loc>>

\* if (s_initialized) return;
init_check(t) ==
  /\ ~aborted
  /\ pc[t] = "init_check"
  /\ Goto(t, IF s_initialized THEN "body" ELSE "init_set")
  /\ UNCHANGED <<pool_vars, os_vars, last, loc>>

\* s_initialized = true; int i = 0
init_set(t) ==
  /\ ~aborted
  /\ pc[t] = "init_set"
  /\ s_initialized' = TRUE
  /\ loc' = [loc EXCEPT ![t].i = 0]
  /\ Goto(t, "init_add")
  /\ UNCHANGED <<s_shmem, s_free_shmem, live, aborted, os_vars, last>>

\* mutant: an entry that is on the free list is not added again
init_add_once(t) ==
  /\ ~aborted
  /\ pc[t] = "init_add"
  /\ s_free_shmem' = IF \E k \in 1 .. Len(s_free_shmem) :
                          s_free_shmem[k] = loc[t].i
                       THEN s_free_shmem
                       ELSE list_add(s_free_shmem, loc[t].i)
  /\ loc' = [loc EXCEPT ![t].i = @ + 1]
  /\ Goto(t, IF loc[t].i + 1 < MAX_SHMEM THEN "init_add" ELSE "body")
  /\ UNCHANGED <<s_initialized, s_shmem, live, aborted, os_vars, last>>

\* one round of the loop: list_add(&s_free_shmem, &s_shmem[i].free_it); i++
init_add(t) ==
  /\ ~aborted
  /\ pc[t] = "init_add"
  /\ s_free_shmem' = list_add(s_free_shmem, loc[t].i)
  /\ loc' = [loc EXCEPT ![t].i = @ + 1]
  /\ Goto(t, IF loc[t].i + 1 < MAX_SHMEM THEN "init_add" ELSE "body")
  /\ UNCHANGED <<s_initialized, s_shmem, live, aborted, os_vars, last>>

\* shmem = list_first_entry(&s_free_shmem, ...); CHECK_NOTNULL(shmem)
first_entry(t) ==
  /\ ~aborted
  /\ pc[t] = "body"
  /\ loc[t].op = "create"
  /\ LET shmem == list_first_entry(s_free_shmem) IN
       IF shmem = NULL
         THEN /\ aborted' = TRUE
              /\ last' = [NoCall EXCEPT !.op = "create", !.err = "abort",
                            !.ret = FALSE]
              /\ UNCHANGED <<pc, loc>>
         ELSE /\ loc' = [loc EXCEPT ![t].shmem = shmem]
              /\ Goto(t, "create_object")
              /\ UNCHANGED <<aborted, last>>
  /\ UNCHANGED <<s_initialized, s_shmem, s_free_shmem, live, os_vars>>

\* shm_unlink, shm_open and ftruncate, and the return of NULL when one of
\* the last two fails
create_object(t) ==
  /\ ~aborted
  /\ pc[t] = "create_object"
  /\ LET filename == loc[t].filename
         ns1 == unlink_existing(shm_ns, filename)
         oflag == access_to_open_flags(loc[t].access)
         o == shm_open(ns1, fd_table, filename, oflag)
         handle == o.fd
         call == [NoCall EXCEPT !.op = "create", !.ret = FALSE,
                    !.occupied = (filename \in DOMAIN shm_ns)]
     IN
     IF handle = -1
       THEN /\ shm_ns' = o.ns
            /\ fd_table' = o.fdt
            /\ mem' = Carry(mem, vm, o.fdt, vm)
            /\ last' = [call EXCEPT !.err = "shm_open",
                          !.calls = <<"shm_unlink", "shm_open">>]
            /\ loc' = [loc EXCEPT ![t] = NoLocals]
            /\ Goto(t, "idle")
     ELSE IF ftruncate(o.fdt, handle, NumPages) = -1
       THEN /\ shm_ns' = unlink_created(o.ns, filename)
            /\ fd_table' = o.fdt
            /\ mem' = Carry(mem, vm, o.fdt, vm)
            /\ last' = [call EXCEPT !.err = "ftruncate",
                          !.calls = <<"shm_unlink", "shm_open",
                                      "ftruncate", "shm_unlink">>]
            /\ loc' = [loc EXCEPT ![t] = NoLocals]
            /\ Goto(t, "idle")
       ELSE /\ shm_ns' = o.ns
            /\ fd_table' = o.fdt
            /\ mem' = resize_created(Carry(mem, vm, o.fdt, vm),
                                     o.fdt[handle].obj, NumPages)
            /\ loc' = [loc EXCEPT ![t].fd = handle]
            /\ Goto(t, "update_entry")
            /\ UNCHANGED last
  /\ UNCHANGED <<pool_vars, vm>>

\* mutant: the entry is handed out only if it still is on the free list
return_entry_checked(t) ==
  /\ ~aborted
  /\ pc[t] = "update_entry"
  /\ LET shmem == loc[t].shmem
         free == \E k \in 1 .. Len(s_free_shmem) : s_free_shmem[k] = shmem
     IN
     /\ s_shmem' = IF free
                     THEN [s_shmem EXCEPT ![shmem] =
                             update_entry(@, loc[t].filename, loc[t].fd)]
                     ELSE s_shmem
     /\ s_free_shmem' = take_entry(s_free_shmem, shmem)
     /\ live' = IF free THEN [live EXCEPT ![shmem] = @ + 1] ELSE live
     /\ last' = [NoCall EXCEPT !.op = "create",
                   !.calls = <<"shm_unlink", "shm_open", "ftruncate">>,
                   !.handle = IF free THEN shmem ELSE NULL]
  /\ loc' = [loc EXCEPT ![t] = NoLocals]
  /\ Goto(t, "idle")
  /\ UNCHANGED <<s_initialized, aborted, os_vars>>

\* the entry is written and taken off the free list, and returned
return_entry(t) ==
  /\ ~aborted
  /\ pc[t] = "update_entry"
  /\ LET shmem == loc[t].shmem IN
       /\ s_shmem' = [s_shmem EXCEPT ![shmem] =
                        update_entry(@, loc[t].filename, loc[t].fd)]
       /\ s_free_shmem' = take_entry(s_free_shmem, shmem)
       /\ live' = [live EXCEPT ![shmem] = @ + 1]
       /\ last' = [NoCall EXCEPT !.op = "create", !.handle = shmem,
                     !.calls = <<"shm_unlink", "shm_open", "ftruncate">>]
  /\ loc' = [loc EXCEPT ![t] = NoLocals]
  /\ Goto(t, "idle")
  /\ UNCHANGED <<s_initialized, aborted, os_vars>>

\* close(shmem->handle); shm_unlink(shmem->filename)
close_and_unlink(t) ==
  /\ ~aborted
  /\ pc[t] = "body"
  /\ loc[t].op = "destroy"
  /\ LET shmem == loc[t].handle
         c == close(fd_table, vm, s_shmem[shmem].handle, "ok")
         u == unlink_recorded(shm_ns, s_shmem[shmem])
     IN
     /\ fd_table' = c.fdt
     /\ vm' = c.vm
     /\ mem' = Carry(mem, vm, c.fdt, c.vm)
     /\ shm_ns' = u.ns
     /\ last' = [NoCall EXCEPT !.op = "destroy", !.handle = shmem,
                   !.calls = <<"close", "shm_unlink">>,
                   !.ret = (c.ret = 0 /\ u.ret = 0)]
  /\ Goto(t, "add_back")
  /\ UNCHANGED <<pool_vars, loc>>

\* list_add(&s_free_shmem, &shmem->free_it), and the return
add_back(t) ==
  /\ ~aborted
  /\ pc[t] = "add_back"
  /\ s_free_shmem' = recycle_entry(s_free_shmem, loc[t].handle)
  /\ loc' = [loc EXCEPT ![t] = NoLocals]
  /\ Goto(t, "idle")
  /\ UNCHANGED <<s_initialized, s_shmem, live, aborted, os_vars, last>>

(***************************************************************************)
(* specifications                                                          *)
(***************************************************************************)
PoolInit ==
  /\ s_initialized = FALSE
  /\ s_shmem = [e \in Entries |-> [filename |-> "", handle |-> 0]]
  /\ s_free_shmem = <<>>
  /\ live = [e \in Entries |-> 0]
  /\ aborted = FALSE
  /\ shm_ns = Nothing
  /\ fd_table = Nothing
  /\ mem = Nothing
  /\ last = NoCall
  /\ hist = <<>>
  /\ maps = [p \in Pages |-> <<>>]
  /\ pc = [t \in Threads |-> "idle"]
  /\ loc = [t \in Threads |-> NoLocals]
  /\ mutex = NoThread

\* Spec: the life cycle of the segments of one process. Segments are
\* created read-write or read-only (every access but ACC_READWRITE opens the
\* descriptor with flags 0, which is O_RDONLY), and mapped read-write and
\* unmapped at the first page.
Init ==
  /\ PoolInit
  /\ vm = [p \in Pages |-> NoMap]

CreateAccess == {"ACC_READONLY", "ACC_READWRITE"}

Create ==
  \E filename \in Names, access \in CreateAccess :
    create_shared_memory(filename, NumPages, access)
      /\ UNCHANGED <<hist, maps, thread_vars>>

Map ==
  \E handle \in Entries, size \in {0, 1} :
    map_shared_memory(handle, 0, 0, size, "ACC_READWRITE")
      /\ UNCHANGED <<hist, maps, thread_vars>>

Unmap ==
  \E handle \in Entries \cup {NULL}, size \in {0, 1} :
    unmap_shared_memory(handle, 0, size)
      /\ UNCHANGED <<hist, maps, thread_vars>>

Destroy ==
  \E handle \in Entries, io \in {"ok", "error"} :
    destroy_shared_memory(handle, io)
      /\ UNCHANGED <<hist, maps, thread_vars>>

Next == Create \/ Map \/ Unmap \/ Destroy

Spec == Init /\ [][Next]_vars

\* PagesSpec: the page operations alone, from an address space in which any
\* pages may already be mapped, with the calls made so far
PagesInit ==
  /\ PoolInit
  /\ vm \in [Pages -> {NoMap, AnonMap}]

\* a call, what it returned and the address space before it
Call(op, ptr, size, ret) ==
  [op |-> op, ptr |-> ptr, size |-> size, ret |-> ret, before |-> vm]

PagesReserve ==
  \E ptr \in Pages, size \in Sizes :
    /\ Len(hist) < MaxHist
    /\ ptr + size <= NumPages
    /\ reserve_pages(ptr, size)
    /\ hist' = Append(hist, Call("reserve", ptr, size, last'.ret))
    /\ UNCHANGED <<maps, thread_vars>>

PagesRelease ==
  \E ptr \in Pages, size \in Sizes :
    /\ Len(hist) < MaxHist
    /\ ptr + size <= NumPages
    /\ release_pages(ptr, size)
    /\ hist' = Append(hist, Call("release", ptr, size, last'.ret))
    /\ UNCHANGED <<maps, thread_vars>>

PagesNext == PagesReserve \/ PagesRelease

PagesSpec == PagesInit /\ [][PagesNext]_vars

\* MapSpec: read-write segments are created and mapped from their start on
\* any non-empty range of the window, over pages that are unmapped, reserved
\* or mapped; no segment is destroyed
MapAccess == {"ACC_READONLY", "ACC_READWRITE"}

MapCreate ==
  \E filename \in Names :
    create_shared_memory(filename, NumPages, "ACC_READWRITE")
      /\ UNCHANGED <<hist, maps, thread_vars>>

MapMap ==
  \E handle \in Entries, start \in Pages, size \in Sizes \ {0},
     access \in MapAccess :
    /\ start + size <= NumPages
    /\ map_shared_memory(handle, 0, start, size, access)
    /\ UNCHANGED <<hist, maps, thread_vars>>

MapUnmap ==
  \E start \in Pages, size \in Sizes \ {0} :
    /\ start + size <= NumPages
    /\ unmap_shared_memory(NULL, start, size)
    /\ UNCHANGED <<hist, maps, thread_vars>>

MapReserve ==
  \E ptr \in Pages, size \in Sizes \ {0} :
    /\ ptr + size <= NumPages
    /\ reserve_pages(ptr, size)
    /\ UNCHANGED <<hist, maps, thread_vars>>

MapNext == MapCreate \/ MapMap \/ MapUnmap \/ MapReserve

MapSpec == Init /\ [][MapNext]_vars

\* DataSpec: one read-write segment at a time is created under one name,
\* mapped from its start on any non-empty range, written through its
\* mappings, unmapped and destroyed; the caller keeps, for every page, the
\* live handle and the segment offset it has mapped there
Mapping(m, handle, offset, start, size) ==
  [p \in Pages |-> IF p \in Range(start, size)
                     THEN <<handle, offset + (p - start)>>
                     ELSE m[p]]

Unmapping(m, start, size) ==
  [p \in Pages |-> IF p \in Range(start, size) THEN <<>> ELSE m[p]]

Forgetting(m, handle) ==
  [p \in Pages |-> IF m[p] # <<>> /\ m[p][1] = handle THEN <<>> ELSE m[p]]

DataCreate ==
  /\ \A e \in Entries : live[e] = 0
  /\ create_shared_memory("x", NumPages, "ACC_READWRITE")
  /\ UNCHANGED <<hist, maps, thread_vars>>

DataMap ==
  \E handle \in Entries, start \in Pages, size \in Sizes \ {0} :
    /\ start + size <= NumPages
    /\ map_shared_memory(handle, 0, start, size, "ACC_READWRITE")
    /\ maps' = IF last'.ret
                 THEN Mapping(maps, handle, 0, start, size)
                 ELSE maps
    /\ UNCHANGED <<hist, thread_vars>>

DataStore ==
  \E p \in Pages, b \in Bytes :
    store(p, b) /\ UNCHANGED <<hist, maps, thread_vars>>

DataUnmap ==
  \E handle \in Entries, start \in Pages, size \in Sizes \ {0} :
    /\ start + size <= NumPages
    /\ live[handle] > 0
    /\ unmap_shared_memory(handle, start, size)
    /\ maps' = IF last'.ret THEN Unmapping(maps, start, size) ELSE maps
    /\ UNCHANGED <<hist, thread_vars>>

DataDestroy ==
  \E handle \in Entries :
    /\ destroy_shared_memory(handle, "ok")
    /\ maps' = Forgetting(maps, handle)
    /\ UNCHANGED <<hist, thread_vars>>

DataNext == DataCreate \/ DataMap \/ DataStore \/ DataUnmap \/ DataDestroy

DataSpec == Init /\ [][DataNext]_vars

\* UnmapSpec: one read-write segment at a time is created under one name,
\* mapped at the first page and destroyed, and the first page and the empty
\* range are unmapped with any handle value and released. The latest
\* release_pages call is kept with the state it was made in and the state
\* it left, and after it the latest unmap_shared_memory call.
Snapshot ==
  [vm |-> vm, mem |-> mem, shm_ns |-> shm_ns, fd_table |-> fd_table,
   s_initialized |-> s_initialized, s_shmem |-> s_shmem,
   s_free_shmem |-> s_free_shmem]

Returned(op, handle, ptr, size) ==
  [op |-> op, handle |-> handle, ptr |-> ptr, size |-> size,
   ret |-> last'.ret, before |-> Snapshot, after |-> Snapshot']

UnmapCreate ==
  /\ \A e \in Entries : live[e] = 0
  /\ create_shared_memory("x", NumPages, "ACC_READWRITE")
  /\ UNCHANGED <<hist, maps, thread_vars>>

UnmapMap ==
  \E handle \in Entries :
    map_shared_memory(handle, 0, 0, 1, "ACC_READWRITE")
      /\ UNCHANGED <<hist, maps, thread_vars>>

UnmapDestroy ==
  \E handle \in Entries :
    destroy_shared_memory(handle, "ok")
      /\ UNCHANGED <<hist, maps, thread_vars>>

UnmapRelease ==
  \E ptr \in {0}, size \in {0, 1} :
    /\ release_pages(ptr, size)
    /\ hist' = <<Returned("release", NULL, ptr, size)>>
    /\ UNCHANGED <<maps, thread_vars>>

UnmapUnmap ==
  \E handle \in Entries \cup {NULL}, start \in {0}, size \in {0, 1} :
    /\ unmap_shared_memory(handle, start, size)
    /\ hist' = IF hist = <<>>
                 THEN hist
                 ELSE <<hist[1], Returned("unmap", handle, start, size)>>
    /\ UNCHANGED <<maps, thread_vars>>

UnmapNext ==
  UnmapCreate \/ UnmapMap \/ UnmapDestroy \/ UnmapRelease \/ UnmapUnmap

UnmapSpec == Init /\ [][UnmapNext]_vars

\* each thread creates its segments under a name of its own
ThreadName(t) == IF t = 1 THEN "x" ELSE "y"

\* the calls threads make: read-write creates, and destroys of live handles
call(t) ==
  \/ call_create(t, ThreadName(t), "ACC_READWRITE")
  \/ \E handle \in Entries : call_destroy(t, handle)

step(t) ==
  \/ init_check(t)
  \/ init_set(t)
  \/ init_add(t)
  \/ first_entry(t)
  \/ create_object(t)
  \/ return_entry(t)
  \/ close_and_unlink(t)
  \/ add_back(t)

\* no entry is on the free list twice, in use twice, or both
Intact ==
  \A e \in Entries :
    Cardinality({k \in 1 .. Len(s_free_shmem) : s_free_shmem[k] = e})
      + live[e] <= 1

\* RaceSpec: the threads call create and destroy with no serialization.
\* Each thread holds one segment at a time, created under its own name, and
\* destroys the handles that carry its name. Calls are started while the pool
\* is intact: a list that holds an entry twice is no longer the list of the
\* source.
RaceCall ==
  \E t \in Threads :
    /\ Intact
    /\ \/ /\ \A e \in Entries :
               live[e] > 0 => s_shmem[e].filename # ThreadName(t)
          /\ call_create(t, ThreadName(t), "ACC_READWRITE")
       \/ \E handle \in Entries :
            /\ s_shmem[handle].filename = ThreadName(t)
            /\ call_destroy(t, handle)
    /\ UNCHANGED <<hist, maps, mutex>>

RaceStep ==
  \E t \in Threads : step(t) /\ UNCHANGED <<hist, maps, mutex>>

RaceNext == RaceCall \/ RaceStep

RaceSpec == Init /\ [][RaceNext]_vars

\* MutexSpec: every call is made with the caller's mutex held, from before
\* its first statement until it has returned
MutexCall ==
  \E t \in Threads :
    /\ mutex = NoThread
    /\ call(t)
    /\ mutex' = t
    /\ UNCHANGED <<hist, maps>>

MutexStep ==
  \E t \in Threads :
    /\ mutex = t
    /\ step(t)
    /\ mutex' = IF pc'[t] = "idle" THEN NoThread ELSE t
    /\ UNCHANGED <<hist, maps>>

MutexNext == MutexCall \/ MutexStep

MutexSpec == Init /\ [][MutexNext]_vars

TypeOK ==
  /\ s_initialized \in BOOLEAN
  /\ aborted \in BOOLEAN
  /\ live \in [Entries -> Nat]
  /\ \A i \in 1 .. Len(s_free_shmem) : s_free_shmem[i] \in Entries
  /\ DOMAIN shm_ns \subseteq Names
  /\ DOMAIN fd_table \subseteq Fds
  /\ Linked(shm_ns) \subseteq Open(fd_table)

(***************************************************************************)
(* properties                                                              *)
(***************************************************************************)
\* the pages the caller has mapped from one live handle at one offset
SameBytes(p, q) == maps[p] # <<>> /\ maps[p] = maps[q]

Count(list, e) == Cardinality({i \in 1 .. Len(list) : list[i] = e})

NumLive == Cardinality({e \in Entries : live[e] > 0})

\* the OS has what a create needs: a free descriptor, and the segment is
\* opened for writing so that it can be resized
OsSucceeds(access) ==
  /\ Fds \ DOMAIN fd_table # {}
  /\ access_to_open_flags(access) = "O_RDWR"

\* C1: once the pool is initialized every entry is either on the free list,
\* exactly once, and held by no handle, or off the free list and held by
\* exactly one live handle
C1_PoolInvariant ==
  s_initialized =>
    \A e \in Entries :
      \/ Count(s_free_shmem, e) = 1 /\ live[e] = 0
      \/ Count(s_free_shmem, e) = 0 /\ live[e] = 1

\* an entry is handed out and another one has been handed out, destroyed
\* and put back
C1_Witness ==
  /\ last.op = "destroy"
  /\ \E e, f \in Entries :
       /\ live[e] = 1 /\ Count(s_free_shmem, e) = 0
       /\ live[f] = 0 /\ Count(s_free_shmem, f) = 1
       /\ s_shmem[f].filename # ""

\* C2: a create made while fewer than MAX_SHMEM handles are live does not
\* abort and, the OS calls succeeding, returns a handle; a create made while
\* MAX_SHMEM handles are live aborts the process and returns nothing
C2_ExhaustionAborts ==
  [][\A filename \in Names, access \in CreateAccess :
       (last'.op = "create"
          /\ create_shared_memory(filename, NumPages, access)) =>
         IF NumLive < MAX_SHMEM
           THEN /\ ~aborted'
                /\ OsSucceeds(access) => last'.handle \in Entries
           ELSE /\ aborted'
                /\ last'.err = "abort"
                /\ live' = live]_vars

\* MAX_SHMEM handles with MAX_SHMEM distinct names are live and one more
\* create has aborted
C2_Witness ==
  /\ aborted
  /\ last.op = "create"
  /\ \A e \in Entries : live[e] = 1
  /\ Cardinality({s_shmem[e].filename : e \in Entries}) = MAX_SHMEM

\* C3: a create of a name that is linked, made with the pool not exhausted
\* and the OS calls succeeding, returns a handle; the name then refers to
\* the object of that handle and the object it referred to before is not
\* linked under any name
C3_CreateClobbers ==
  [][\A filename \in Names, access \in CreateAccess :
       ( /\ last'.op = "create"
         /\ filename \in DOMAIN shm_ns
         /\ NumLive < MAX_SHMEM
         /\ OsSucceeds(access)
         /\ create_shared_memory(filename, NumPages, access) ) =>
           /\ last'.handle \in Entries
           /\ filename \in DOMAIN shm_ns'
           /\ shm_ns'[filename] = <<"fd", s_shmem'[last'.handle].handle>>
           /\ shm_ns'[filename] # shm_ns[filename]
           /\ shm_ns[filename] \notin Linked(shm_ns')]_vars

\* two handles created under the same name are live, the second one
\* created while the name was linked
C3_Witness ==
  /\ last.op = "create"
  /\ last.handle \in Entries
  /\ last.occupied
  /\ \E e \in Entries :
       /\ e # last.handle
       /\ live[e] = 1
       /\ s_shmem[e].filename = s_shmem[last.handle].filename

\* C4: a create that returns NULL leaves the pool as it was (the free list
\* is the one the lazy initialization gives, no entry is written and no
\* handle added), and after a failed resize no object is linked under the
\* name
C4_FailedCreateKeepsPool ==
  [][\A filename \in Names, access \in CreateAccess :
       ( /\ last'.op = "create"
         /\ last'.handle = NULL
         /\ ~aborted'
         /\ create_shared_memory(filename, NumPages, access) ) =>
           /\ s_free_shmem' =
                init_shared_memory_entries(s_initialized, s_free_shmem)
           /\ s_shmem' = s_shmem
           /\ live' = live
           /\ last'.err \in {"shm_open", "ftruncate"}
           /\ last'.err = "ftruncate" => filename \notin DOMAIN shm_ns']_vars

\* a create has failed in the resize while a handle is live
C4_Witness ==
  /\ last.op = "create"
  /\ last.handle = NULL
  /\ last.err = "ftruncate"
  /\ NumLive > 0
  /\ ~aborted

\* C5: destroy of a live handle leaves its entry on the free list, exactly
\* once, and held by no handle, whatever close and shm_unlink return
C5_DestroyRecycles ==
  [][\A handle \in {last'.handle} \cap Entries, io \in {"ok", "error"} :
       (last'.op = "destroy" /\ destroy_shared_memory(handle, io)) =>
         /\ Count(s_free_shmem', handle) = 1
         /\ live'[handle] = 0]_vars

\* a destroy in which both close and shm_unlink failed
C5_Witness ==
  /\ last.op = "destroy"
  /\ last.err = "close, shm_unlink"
  /\ \E e \in Entries : Count(s_free_shmem, e) = 1 /\ s_shmem[e].filename # ""

\* C6: once every handle that create returned has been destroyed, no
\* descriptor of this layer is open and no object of this layer is linked
C6_MatchingPairs ==
  NumLive = 0 => DOMAIN fd_table = {} /\ DOMAIN shm_ns = {}

\* the part of C6 that holds: no object of this layer stays linked
C6_NoNameLeft ==
  NumLive = 0 => DOMAIN shm_ns = {}

SameRange(a, b) == a.ptr = b.ptr /\ a.size = b.size

DisjointRanges(a, b) == Range(a.ptr, a.size) \cap Range(b.ptr, b.size) = {}

\* C7: of two reserve_pages calls in a row on non-empty ranges that were
\* unmapped before the first, both return true when the ranges are
\* disjoint, and the second returns false when it asks for the range of the
\* first
C7_ReserveDetectsCollision ==
  \A i \in 1 .. (Len(hist) - 1) :
    LET a == hist[i]
        b == hist[i + 1]
    IN ( /\ a.op = "reserve" /\ b.op = "reserve"
         /\ a.size > 0 /\ b.size > 0
         /\ RangeFree(a.before, a.ptr, a.size) ) =>
           /\ a.ret
           /\ (DisjointRanges(a, b) /\ RangeFree(a.before, b.ptr, b.size))
                => b.ret
           /\ SameRange(a, b) => ~b.ret

\* two disjoint ranges have been reserved one after the other, and a range
\* has been asked for twice
C7_Witness ==
  /\ Len(hist) = 3
  /\ hist[1].op = "reserve" /\ hist[2].op = "reserve"
  /\ hist[3].op = "reserve"
  /\ hist[1].size > 0 /\ hist[2].size > 0
  /\ DisjointRanges(hist[1], hist[2])
  /\ hist[1].ret /\ hist[2].ret
  /\ SameRange(hist[2], hist[3]) /\ ~hist[3].ret

\* C8: a reserve_pages call on a range of which a page is mapped returns
\* false and leaves every page of the address space mapped as it was
C8_FailedReserveChangesNothing ==
  hist # <<>> =>
    LET c == hist[Len(hist)]
    IN (c.op = "reserve" /\ Occupied(c.before, c.ptr, c.size)) =>
         ~c.ret /\ vm = c.before

\* the OS placed the mapping at another address than the requested one,
\* which was mapped
C8_Witness ==
  /\ hist # <<>>
  /\ hist[Len(hist)].op = "reserve"
  /\ Occupied(hist[Len(hist)].before, hist[Len(hist)].ptr,
              hist[Len(hist)].size)
  /\ last.err = "moved"
  /\ vm = hist[Len(hist)].before

\* C9: reserve_pages, release_pages and reserve_pages again, called in a
\* row on one non-empty range that was unmapped before, all return true
C9_ReleaseMakesReservable ==
  \A i \in 1 .. (Len(hist) - 2) :
    LET a == hist[i]
        b == hist[i + 1]
        c == hist[i + 2]
    IN ( /\ a.op = "reserve" /\ b.op = "release" /\ c.op = "reserve"
         /\ a.size > 0
         /\ SameRange(a, b) /\ SameRange(b, c)
         /\ RangeFree(a.before, a.ptr, a.size) ) =>
           a.ret /\ b.ret /\ c.ret

\* a range of more than one page has been reserved, released and reserved
\* again
C9_Witness ==
  /\ Len(hist) = 3
  /\ hist[1].op = "reserve" /\ hist[2].op = "release"
  /\ hist[3].op = "reserve"
  /\ hist[1].size > 1
  /\ SameRange(hist[1], hist[2]) /\ SameRange(hist[2], hist[3])
  /\ hist[1].ret /\ hist[2].ret /\ hist[3].ret

\* C10: map_shared_memory of a live handle on a non-empty range returns
\* true whatever is mapped in the range, and then every page of the range
\* maps the segment of the handle and every other page is as it was
C10_MapReplaces ==
  [][\A handle \in {last'.handle} \cap Entries,
        start \in {last'.start} \cap Pages,
        size \in {last'.size} \cap Sizes, access \in MapAccess :
       ( /\ last'.op = "map"
         /\ size > 0
         /\ start + size <= NumPages
         /\ map_shared_memory(handle, 0, start, size, access) ) =>
           /\ last'.ret
           /\ \A p \in Pages :
                vm'[p] = IF p \in Range(start, size)
                           THEN ShmMap(<<"fd", s_shmem[handle].handle>>,
                                       p - start)
                           ELSE vm[p]]_vars

\* a segment has been mapped over a reserved page and a page that mapped
\* another segment
C10_Witness ==
  /\ last.op = "map"
  /\ last.occupied
  /\ last.ret
  /\ \A p \in Pages : vm[p].kind = "shm"
  /\ Cardinality(Mapped(vm)) = 1

\* C11: pages that the caller has mapped read-write from the same live
\* handle at the same segment offset read the same byte in every state,
\* whether the byte was stored before or after the second mapping was made
C11_CrossMappingCoherence ==
  \A p, q \in Pages :
    SameBytes(p, q) =>
      /\ Accessible(mem, vm, p) /\ Accessible(mem, vm, q)
      /\ Load(mem, vm, p) = Load(mem, vm, q)

\* a handle has been mapped at one page, the pattern stored there, and the
\* handle then mapped at another page, where the pattern is read
C11_Witness ==
  /\ last.op = "map"
  /\ last.ret
  /\ \E p, q \in Pages :
       /\ p # q
       /\ SameBytes(p, q)
       /\ q \in Range(last.start, last.size)
       /\ p \notin Range(last.start, last.size)
       /\ Load(mem, vm, q) = 1

\* an entry that is not in use records the name: a handle created under the
\* name has been destroyed
Destroyed(filename) ==
  \E e \in Entries : live[e] = 0 /\ s_shmem[e].filename = filename

\* C12: a read-write create under the name of a destroyed handle returns a
\* handle to an object that has all its pages, every byte of them zero, and
\* that no page maps; the pages still mapped from the destroyed segment keep
\* their bytes
C12_RecreatedIsZero ==
  [][( /\ last'.op = "create"
       /\ Destroyed("x")
       /\ create_shared_memory("x", NumPages, "ACC_READWRITE") ) =>
         /\ last'.handle \in Entries
         /\ LET obj == <<"fd", s_shmem'[last'.handle].handle>> IN
              /\ shm_ns'["x"] = obj
              /\ DOMAIN mem'[obj] = 0 .. (NumPages - 1)
              /\ \A i \in DOMAIN mem'[obj] : mem'[obj][i] = 0
              /\ obj \notin Mapped(vm')
         /\ \A p \in Pages :
              Accessible(mem, vm, p) =>
                /\ Accessible(mem', vm', p)
                /\ Load(mem', vm', p) = Load(mem, vm, p)]_vars

\* a segment has been created under the name of a destroyed one of which a
\* page holding the pattern is still mapped
C12_Witness ==
  /\ last.op = "create"
  /\ last.handle \in Entries
  /\ \E p \in Pages :
       /\ vm[p].kind = "shm"
       /\ vm[p].obj[1] = "page"
       /\ Load(mem, vm, p) = 1
  /\ \A i \in 0 .. (NumPages - 1) :
       mem[<<"fd", s_shmem[last.handle].handle>>][i] = 0

LiveEntries == {e \in Entries : live[e] > 0}

LiveNames == {s_shmem[e].filename : e \in LiveEntries}

\* C13, as claimed: no two live handles carry the same name
C13_LiveNamesDistinct ==
  \A e, f \in LiveEntries : e # f => s_shmem[e].filename # s_shmem[f].filename

\* C13, amended: the names of the live handles stay pairwise distinct in
\* every step but a create under a name that a live handle carries
C13_DistinctUnlessRecreated ==
  [][( /\ C13_LiveNamesDistinct
       /\ ~ ( /\ last'.op = "create"
              /\ \E filename \in LiveNames, access \in CreateAccess :
                   create_shared_memory(filename, NumPages, access) ) ) =>
         C13_LiveNamesDistinct']_vars

\* two handles with different names are live, one of them on an entry that
\* has been handed out before
C13_Witness ==
  /\ last.op = "create"
  /\ last.handle = 0
  /\ Cardinality(LiveEntries) > 1
  /\ C13_LiveNamesDistinct

\* C14: when every call is made under the caller's mutex, no entry is ever
\* on the free list twice or both free and in use, and between the calls
\* the pool is either untouched or initialized with every entry once on the
\* free list and held by no handle, or off it and held by exactly one
C14_SerializedCallsKeepPool ==
  /\ Intact
  /\ Cardinality({t \in Threads : pc[t] # "idle"}) <= 1
  /\ mutex = NoThread =>
       /\ \A t \in Threads : pc[t] = "idle"
       /\ IF s_initialized
            THEN \A e \in Entries :
                   \/ Count(s_free_shmem, e) = 1 /\ live[e] = 0
                   \/ Count(s_free_shmem, e) = 0 /\ live[e] = 1
            ELSE s_free_shmem = <<>> /\ \A e \in Entries : live[e] = 0

\* both threads have created a segment, the second one after the first-use
\* initialization was done by the first, and the mutex is free
C14_Witness ==
  /\ mutex = NoThread
  /\ s_initialized
  /\ {"x", "y"} \subseteq LiveNames
  /\ Len(s_free_shmem) = MAX_SHMEM - 2

\* C15: with no serialization the statements of two calls interleave so that
\* a create hands out an entry that a live handle already holds, the
\* first-use initialization adds an entry that is already on the free list,
\* and a create finds the free list empty and aborts
C15_UnserializedCallsRace ==
  [][\A t \in Threads :
       /\ (pc[t] = "update_entry" /\ return_entry(t)
             /\ live[loc[t].shmem] > 0) =>
            /\ live'[loc[t].shmem] > 1
            /\ last'.handle = loc[t].shmem
       /\ (pc[t] = "init_add" /\ init_add(t)
             /\ Count(s_free_shmem, loc[t].i) > 0) =>
            Count(s_free_shmem', loc[t].i) > 1
       /\ (pc[t] = "body" /\ first_entry(t) /\ s_free_shmem = <<>>) =>
            aborted']_vars

\* both calls have returned: the entries have been added to the free list
\* twice, and both creates were given the same entry, which now is held by
\* two live handles
C15_Witness ==
  /\ \A t \in Threads : pc[t] = "idle"
  /\ last.op = "create"
  /\ last.handle \in Entries
  /\ live[last.handle] = 2
  /\ \E e \in Entries : Count(s_free_shmem, e) = 2

\* C16: an unmap_shared_memory call leaves the pool, the namespace and the
\* descriptors as they were, and when it is given the range of the latest
\* release_pages call in the state that call was made in, it returns what
\* that call returned and leaves the state that call left, whatever handle
\* it is given
C16_UnmapIsRelease ==
  Len(hist) = 2 =>
    LET r == hist[1]
        u == hist[2]
    IN
    /\ r.op = "release" /\ u.op = "unmap"
    /\ [u.after EXCEPT !.vm = u.before.vm, !.mem = u.before.mem] = u.before
    /\ (u.ptr = r.ptr /\ u.size = r.size /\ u.before = r.before) =>
         (u.ret = r.ret /\ u.after = r.after)

\* a mapped page was released and mapped again, and then unmapped with the
\* handle of a destroyed segment, with the same result
C16_Witness ==
  /\ Len(hist) = 2
  /\ hist[2].ptr = hist[1].ptr
  /\ hist[2].size = hist[1].size
  /\ hist[2].before = hist[1].before
  /\ hist[2].before.vm[0].kind = "shm"
  /\ hist[2].after.vm[0] = NoMap
  /\ hist[2].ret
  /\ hist[2].handle \in Entries
  /\ live[hist[2].handle] = 0
  /\ s_shmem[hist[2].handle].filename # ""
  /\ vm = hist[2].after.vm

\* C17: an entry comes to be held only by a create that returns it and
\* takes it off the free list, and ceases to be held only by a destroy of
\* its handle, which puts it back on the list; and the create that follows
\* a destroy made with all MAX_SHMEM handles live does not abort and, the OS
\* calls succeeding, returns the entry of the destroyed handle
C17_EntryCycle ==
  [][ /\ \A e \in Entries :
           /\ (live[e] = 0 /\ live'[e] > 0) =>
                /\ last'.op = "create"
                /\ last'.handle = e
                /\ Count(s_free_shmem', e) = 0
           /\ (live[e] > 0 /\ live'[e] = 0) =>
                /\ last'.op = "destroy"
                /\ last'.handle = e
                /\ Count(s_free_shmem', e) = 1
      /\ \A filename \in Names, access \in CreateAccess :
           ( /\ last.op = "destroy"
             /\ last'.op = "create"
             /\ NumLive = MAX_SHMEM - 1
             /\ create_shared_memory(filename, NumPages, access) ) =>
               /\ ~aborted'
               /\ OsSucceeds(access) => last'.handle = last.handle ]_vars

\* every entry is held, and the one handed out last is the one that was
\* first on the free list after the initialization: it had been handed out
\* before and was destroyed when the others were held
C17_Witness ==
  /\ last.op = "create"
  /\ last.handle = 0
  /\ \A e \in Entries : live[e] = 1
  /\ s_free_shmem = <<>>

\* C18: a destroy calls close and then shm_unlink, each once, also when the
\* close fails: afterwards the descriptor of the entry is not open and its
\* name is not linked; and it returns true exactly when the descriptor was
\* open and closed without error and the name was linked
C18_DestroyAttemptsBoth ==
  [][\A handle \in {last'.handle} \cap Entries, io \in {"ok", "error"} :
       (last'.op = "destroy" /\ destroy_shared_memory(handle, io)) =>
         /\ last'.calls = <<"close", "shm_unlink">>
         /\ s_shmem[handle].handle \notin DOMAIN fd_table'
         /\ s_shmem[handle].filename \notin DOMAIN shm_ns'
         /\ last'.ret = ( /\ io = "ok"
                          /\ s_shmem[handle].handle \in DOMAIN fd_table
                          /\ s_shmem[handle].filename \in DOMAIN shm_ns )]_vars

\* a destroy has returned false because its close failed, and the name of
\* its entry, which was linked, has been unlinked all the same
C18_Witness ==
  /\ last.op = "destroy"
  /\ last.err = "close"
  /\ ~last.ret
  /\ last.calls = <<"close", "shm_unlink">>
  /\ s_shmem[last.handle].filename \notin DOMAIN shm_ns

\* the object of a live handle is linked under the name of its entry
Reachable(ns, f) ==
  /\ s_shmem[f].filename \in DOMAIN ns
  /\ ns[s_shmem[f].filename] = <<"fd", s_shmem[f].handle>>

\* C19, as claimed: a destroy leaves the object of every other live handle
\* reachable by its name
C19_DestroyRemovesOwnOnly ==
  [][\A handle \in {last'.handle} \cap Entries, io \in {"ok", "error"} :
       (last'.op = "destroy" /\ destroy_shared_memory(handle, io)) =>
         \A f \in LiveEntries \ {handle} :
           Reachable(shm_ns, f) => Reachable(shm_ns', f)]_vars

\* C19, amended: a destroy removes from the namespace the object that is
\* linked under the name of its entry, whichever handle it belongs to, and
\* nothing else: the object of another live handle stays reachable by name
\* exactly when that handle was created under another name
C19_DestroyUnlinksRecordedName ==
  [][\A handle \in {last'.handle} \cap Entries, io \in {"ok", "error"} :
       (last'.op = "destroy" /\ destroy_shared_memory(handle, io)) =>
         /\ DOMAIN shm_ns' = DOMAIN shm_ns \ {s_shmem[handle].filename}
         /\ \A n \in DOMAIN shm_ns' : shm_ns'[n] = shm_ns[n]
         /\ \A f \in LiveEntries \ {handle} :
              Reachable(shm_ns, f) =>
                ( Reachable(shm_ns', f) <=>
                    s_shmem[f].filename # s_shmem[handle].filename )]_vars

\* a destroy has been made of the first of two handles created under one
\* name: the second is live, its descriptor is open and its object is no
\* longer linked
C19_Witness ==
  /\ last.op = "destroy"
  /\ \E f \in LiveEntries \ {last.handle} :
       /\ s_shmem[f].filename = s_shmem[last.handle].filename
       /\ s_shmem[f].handle \in DOMAIN fd_table
       /\ ~Reachable(shm_ns, f)
       /\ last.ret

\* C20: a create that aborts has made no OS call and leaves the namespace
\* and the descriptors as they were; a create that returns NULL has called
\* shm_unlink first and leaves no object linked under its name, also when
\* one was linked before, and every other name as it was
C20_FailedCreateUnlinks ==
  [][\A filename \in Names, access \in CreateAccess :
       ( /\ last'.op = "create"
         /\ last'.handle = NULL
         /\ create_shared_memory(filename, NumPages, access) ) =>
           IF aborted'
             THEN /\ list_first_entry(s_free_shmem') = NULL
                  /\ last'.calls = <<>>
                  /\ shm_ns' = shm_ns
                  /\ fd_table' = fd_table
             ELSE /\ Head(last'.calls) = "shm_unlink"
                  /\ filename \notin DOMAIN shm_ns'
                  /\ \A n \in Names \ {filename} :
                       /\ n \in DOMAIN shm_ns' <=> n \in DOMAIN shm_ns
                       /\ n \in DOMAIN shm_ns => shm_ns'[n] = shm_ns[n]]_vars

\* a create under the only linked name has returned NULL while a handle is
\* live: the object that was linked under the name is no longer linked
C20_Witness ==
  /\ last.op = "create"
  /\ last.handle = NULL
  /\ ~aborted
  /\ last.occupied
  /\ DOMAIN shm_ns = {}
  /\ \E e \in LiveEntries : s_shmem[e].handle \in DOMAIN fd_table

====
